---- MODULE Spec2Model ----
\* Span-lifecycle bridge of ydb-go-sdk-otel: the handler chains that Retry and
\* Scripting install on the driver's trace hooks, driven by an arbitrary
\* driver, against a tracer that records every open / annotate / close.
EXTENDS Integers, Sequences, FiniteSets, TLC

\* ---------------------------------------------------------------- bounds
NumChains == 2
MaxCalls == 4
\* The batches upsertData launches (rowsLen / batchSize of them).
NumBatches == 3

Chains == 1..NumChains

\* ---------------------------------------------------------------- values
\* A Go error: nil, or a value whose Error() text is its single element.
Nil == <<>>
Errors == {<<"x">>, <<"y">>}
ErrorValues == {Nil} \cup Errors
ErrorText(err) == err[1]

\* A Done record's Result: a nil interface, or a result whose Err() is err.
NilResult == [isNil |-> TRUE, err |-> Nil]
Results == {[isNil |-> FALSE, err |-> Nil], [isNil |-> FALSE, err |-> <<"x">>]}

\* The final attempt counts of a retry loop the driver reports.
AttemptsValues == {1, 2}

Queries == {"q1"}
\* Query parameters: a value with its String() text, whose conversion may fail.
Parameters == {[text |-> "p", fails |-> FALSE]}
NoParameters == [text |-> "", fails |-> FALSE]

\* trace.Details is a bit mask; a mask is the set of its bits.
RetryEvents == {"RetryEvents"}
ScriptingEvents == {"ScriptingEvents"}
DetailsValues == SUBSET (RetryEvents \cup ScriptingEvents)

\* No span: the zero value of a captured span, the parent of a root span.
NoSpan == 0

\* The bridge, its driver and its tracer.
VARIABLES details, retryT, scriptingT, kind, start, ctx, hist, log,
          capacity, held, returned

bridgeVars == <<details, retryT, scriptingT, kind, start, ctx, hist, log,
                capacity, held, returned>>

\* The bench (internal/cmd/bench/main.go).
VARIABLES env, pc, concurrency, shift, sema, wg, batch, workers

benchVars == <<env, pc, concurrency, shift, sema, wg, batch, workers>>

vars == <<bridgeVars, benchVars>>

\* ---------------------------------------------------------------- attributes
AttrBool(key, v) == [key |-> key, type |-> "bool", b |-> v, i |-> 0, s |-> ""]
AttrInt(key, v) == [key |-> key, type |-> "int", b |-> FALSE, i |-> v, s |-> ""]
AttrString(key, v) == [key |-> key, type |-> "string", b |-> FALSE, i |-> 0, s |-> v]

\* safe.Stringer: the guarded formatter; a failed conversion yields the sentinel.
safeStringer(params) == IF params.fails THEN "<sentinel>" ELSE params.text

\* safe.Err: the error a result carries, nil for a nil result.
safeErr(result) == IF result.isNil THEN Nil ELSE result.err

\* ---------------------------------------------------------------- tracer adapter
Event(op, s, name, parent, attrs, status, message) ==
    [op |-> op, span |-> s, name |-> name, parent |-> parent, attrs |-> attrs,
     status |-> status, message |-> message]

NewSpan == 1 + Cardinality({i \in DOMAIN log : log[i].op = "open"})

\* open(parentContext, name, attributes) -> (span, childContext); a tracer that
\* can open no more spans hands out no span and leaves the context as it is.
startSpan(context, name, attrs) ==
    IF capacity = 0
    THEN [span |-> NoSpan, ctx |-> context, log |-> log, capacity |-> capacity]
    ELSE [span |-> NewSpan,
          ctx |-> NewSpan,
          log |-> Append(log, Event("open", NewSpan, name, context, attrs, "", "")),
          capacity |-> capacity - 1]

\* annotate(span, attributes): a non-terminal span event
intermediate(s, err) ==
    IF s = NoSpan
    THEN log
    ELSE Append(log, Event("annotate", s, "", NoSpan,
                           IF err = Nil
                           THEN <<AttrBool("error", FALSE)>>
                           ELSE <<AttrBool("error", TRUE),
                                  AttrString("message", ErrorText(err))>>,
                           "", ""))

\* close(span, error, attributes)
finish(s, err, attrs) ==
    IF s = NoSpan
    THEN log
    ELSE Append(log, Event("close", s, "", NoSpan, attrs,
                           IF err = Nil THEN "OK" ELSE "Error",
                           IF err = Nil THEN "" ELSE ErrorText(err)))

\* ---------------------------------------------------------------- retry.go
\* Retry without the test of the mask.
Retry_AlwaysOn(d) == [OnRetry |-> TRUE]

Retry(d) == [OnRetry |-> (d \cap RetryEvents) # {}]

OnRetry(info) ==
    startSpan(info.Context, "ydb_retry", <<AttrBool("idempotent", info.Idempotent)>>)

\* The intermediate handler annotating the span opened last, not the captured one.
OnRetryIntermediate_LatestSpan(s, info) == intermediate(NewSpan - 1, info.Error)

\* The intermediate handler recording nothing.
OnRetryIntermediate_Silent(s, info) == log

OnRetryIntermediate(s, info) == intermediate(s, info.Error)

\* The Done handler without the attempts attribute.
OnRetryDone_NoAttempts(s, info) == finish(s, info.Error, <<>>)

\* The returned Done handler bound to the span opened last, not to `start`.
OnRetryIntermediateReturn_LatestSpan(s) == NewSpan - 1

\* The Done handler an intermediate call returns closes over the span `start`.
OnRetryIntermediateReturn(s) == s

OnRetryDone(s, info) == finish(s, info.Error, <<AttrInt("attempts", info.Attempts)>>)

\* ---------------------------------------------------------------- scripting.go
\* Scripting installing a proper subset of its four handlers.
Scripting_WithoutOnClose(d) ==
    LET on == (d \cap ScriptingEvents) # {}
    IN  [OnExecute |-> on, OnStreamExecute |-> on, OnExplain |-> on, OnClose |-> FALSE]

Scripting(d) ==
    LET on == (d \cap ScriptingEvents) # {}
    IN  [OnExecute |-> on, OnStreamExecute |-> on, OnExplain |-> on, OnClose |-> on]

\* The start handler opening its span in the background context.
OnExecute_Background(info) ==
    startSpan(NoSpan, "ydb_scripting_execute",
              <<AttrString("query", info.Query), AttrString("params", safeStringer(info.Parameters))>>)

OnExecute(info) ==
    startSpan(info.Context, "ydb_scripting_execute",
              <<AttrString("query", info.Query), AttrString("params", safeStringer(info.Parameters))>>)

\* The Done handler reading the error field alone.
OnExecuteDone_ErrorOnly(s, info) == finish(s, info.Error, <<>>)

OnExecuteDone(s, info) ==
    IF info.Error = Nil
    THEN finish(s, safeErr(info.Result), <<>>)
    ELSE finish(s, info.Error, <<>>)

OnStreamExecute(info) ==
    startSpan(info.Context, "ydb_scripting_stream_execute",
              <<AttrString("query", info.Query), AttrString("params", safeStringer(info.Parameters))>>)

\* The intermediate handler finishing the span.
OnStreamExecuteIntermediate_Closes(s, info) == finish(s, info.Error, <<>>)

\* The intermediate handler dropping the error of its record.
OnStreamExecuteIntermediate_DropsError(s, info) == intermediate(s, Nil)

OnStreamExecuteIntermediate(s, info) == intermediate(s, info.Error)

\* The Done handler an intermediate call returns closes over the span `start`.
OnStreamExecuteIntermediateReturn(s) == s

OnStreamExecuteDone(s, info) == finish(s, info.Error, <<>>)

OnExplain(info) ==
    startSpan(info.Context, "ydb_scripting_explain", <<AttrString("query", info.Query)>>)

OnExplainDone(s, info) == finish(s, info.Error, <<>>)

OnClose(info) == startSpan(info.Context, "ydb_scripting_close", <<>>)

OnCloseDone(s, info) == finish(s, info.Error, <<>>)

\* ---------------------------------------------------------------- driver
\* One record shape for every Start / Intermediate / Done info the driver passes.
Info(call, context, idempotent, query, params, err, attempts, result) ==
    [call |-> call, Context |-> context, Idempotent |-> idempotent, Query |-> query,
     Parameters |-> params, Error |-> err, Attempts |-> attempts, Result |-> result]

StartInfo(context, idempotent, query, params) ==
    Info("start", context, idempotent, query, params, Nil, 0, NilResult)

IntermediateInfo(err) ==
    Info("intermediate", NoSpan, FALSE, "", NoParameters, err, 0, NilResult)

DoneInfo(err, attempts, result) ==
    Info("done", NoSpan, FALSE, "", NoParameters, err, attempts, result)

CallCount(c, call) == Cardinality({i \in DOMAIN hist[c] : hist[c][i].call = call})

RECURSIVE TotalCalls(_)
TotalCalls(n) == IF n = 0 THEN 0 ELSE Len(hist[n]) + TotalCalls(n - 1)

\* The contexts a start record can carry: the background context, or the
\* context of an operation already started.
Contexts == {NoSpan} \cup {ctx[d] : d \in {e \in Chains : kind[e] # "none"}}

CanStart(c) ==
    /\ kind[c] = "none"
    /\ \A d \in Chains : d < c => kind[d] # "none"
    /\ TotalCalls(NumChains) < MaxCalls

\* The intermediate handler is the return value of the start handler.
CanIntermediate(c, k) ==
    /\ kind[c] = k
    /\ TotalCalls(NumChains) < MaxCalls

\* A Done handler is the return value of the start handler (simple chains) or
\* of a call of the intermediate handler (streaming chains).
DoneHeld(c) ==
    /\ kind[c] # "none"
    /\ kind[c] \in {"retry", "streamExecute"} => CallCount(c, "intermediate") > 0

CanDone(c, k) ==
    /\ kind[c] = k
    /\ DoneHeld(c)
    /\ TotalCalls(NumChains) < MaxCalls

\* What the driver hands back to its caller after a call: the fields of its record.
Outcome(info) == [Error |-> info.Error, Result |-> info.Result, Attempts |-> info.Attempts]

\* The start handler ran (on: it is installed; a nil handler is skipped). The
\* start handler of a simple chain returns the Done handler, that of a
\* streaming chain the intermediate handler.
Started(c, k, info, on, r) ==
    /\ kind' = [kind EXCEPT ![c] = k]
    /\ hist' = [hist EXCEPT ![c] = <<info>>]
    /\ start' = [start EXCEPT ![c] = IF on THEN r.span ELSE NoSpan]
    /\ ctx' = [ctx EXCEPT ![c] = IF on THEN r.ctx ELSE info.Context]
    /\ log' = IF on THEN r.log ELSE log
    /\ capacity' = IF on THEN r.capacity ELSE capacity
    /\ held' = [held EXCEPT ![c] = IF k \in {"retry", "streamExecute"}
                                   THEN <<>>
                                   ELSE <<IF on THEN r.span ELSE NoSpan>>]
    /\ UNCHANGED <<details, retryT, scriptingT, returned, benchVars>>

\* A continuation whose closure overwrites the error the driver hands back.
Continued_ClearsError(c, info, on, newLog, ret) ==
    /\ hist' = [hist EXCEPT ![c] = Append(@, info)]
    /\ log' = IF on THEN newLog ELSE log
    /\ held' = [held EXCEPT ![c] = @ \o ret]
    /\ returned' = [returned EXCEPT ![c] =
                       IF on THEN [Outcome(info) EXCEPT !.Error = Nil] ELSE Outcome(info)]
    /\ UNCHANGED <<details, retryT, scriptingT, kind, start, ctx, capacity, benchVars>>

\* A continuation ran (on: it is a closure of an installed handler): the record
\* is passed by value and the closure returns no value but, from an
\* intermediate call, the Done handlers in ret.
Continued(c, info, on, newLog, ret) ==
    /\ hist' = [hist EXCEPT ![c] = Append(@, info)]
    /\ log' = IF on THEN newLog ELSE log
    /\ held' = [held EXCEPT ![c] = @ \o ret]
    /\ returned' = [returned EXCEPT ![c] = Outcome(info)]
    /\ UNCHANGED <<details, retryT, scriptingT, kind, start, ctx, capacity, benchVars>>

RetryStart(c) ==
    /\ CanStart(c)
    /\ \E context \in Contexts, idempotent \in BOOLEAN :
         LET info == StartInfo(context, idempotent, "", NoParameters)
         IN  Started(c, "retry", info, retryT.OnRetry, OnRetry(info))

RetryIntermediate(c) ==
    /\ CanIntermediate(c, "retry")
    /\ \E err \in ErrorValues :
         LET info == IntermediateInfo(err)
         IN  Continued(c, info, retryT.OnRetry, OnRetryIntermediate(start[c], info),
                       <<IF retryT.OnRetry THEN OnRetryIntermediateReturn(start[c]) ELSE NoSpan>>)

RetryDone(c) ==
    /\ CanDone(c, "retry")
    /\ \E err \in ErrorValues, attempts \in AttemptsValues :
         LET info == DoneInfo(err, attempts, NilResult)
         IN  \E j \in DOMAIN held[c] :
                 Continued(c, info, retryT.OnRetry, OnRetryDone(held[c][j], info), <<>>)

ExecuteStart(c) ==
    /\ CanStart(c)
    /\ \E context \in Contexts, query \in Queries, params \in Parameters :
         LET info == StartInfo(context, FALSE, query, params)
         IN  Started(c, "execute", info, scriptingT.OnExecute, OnExecute(info))

ExecuteDone(c) ==
    /\ CanDone(c, "execute")
    /\ \E err \in ErrorValues, result \in Results :
         LET info == DoneInfo(err, 0, result)
         IN  \E j \in DOMAIN held[c] :
                 Continued(c, info, scriptingT.OnExecute, OnExecuteDone(held[c][j], info), <<>>)

StreamExecuteStart(c) ==
    /\ CanStart(c)
    /\ \E context \in Contexts, query \in Queries, params \in Parameters :
         LET info == StartInfo(context, FALSE, query, params)
         IN  Started(c, "streamExecute", info, scriptingT.OnStreamExecute, OnStreamExecute(info))

StreamExecuteIntermediate(c) ==
    /\ CanIntermediate(c, "streamExecute")
    /\ \E err \in ErrorValues :
         LET info == IntermediateInfo(err)
         IN  Continued(c, info, scriptingT.OnStreamExecute,
                       OnStreamExecuteIntermediate(start[c], info),
                       <<IF scriptingT.OnStreamExecute
                         THEN OnStreamExecuteIntermediateReturn(start[c])
                         ELSE NoSpan>>)

StreamExecuteDone(c) ==
    /\ CanDone(c, "streamExecute")
    /\ \E err \in ErrorValues :
         LET info == DoneInfo(err, 0, NilResult)
         IN  \E j \in DOMAIN held[c] :
                 Continued(c, info, scriptingT.OnStreamExecute, OnStreamExecuteDone(held[c][j], info), <<>>)

ExplainStart(c) ==
    /\ CanStart(c)
    /\ \E context \in Contexts, query \in Queries :
         LET info == StartInfo(context, FALSE, query, NoParameters)
         IN  Started(c, "explain", info, scriptingT.OnExplain, OnExplain(info))

ExplainDone(c) ==
    /\ CanDone(c, "explain")
    /\ \E err \in ErrorValues :
         LET info == DoneInfo(err, 0, NilResult)
         IN  \E j \in DOMAIN held[c] :
                 Continued(c, info, scriptingT.OnExplain, OnExplainDone(held[c][j], info), <<>>)

CloseStart(c) ==
    /\ CanStart(c)
    /\ \E context \in Contexts :
         LET info == StartInfo(context, FALSE, "", NoParameters)
         IN  Started(c, "close", info, scriptingT.OnClose, OnClose(info))

CloseDone(c) ==
    /\ CanDone(c, "close")
    /\ \E err \in ErrorValues :
         LET info == DoneInfo(err, 0, NilResult)
         IN  \E j \in DOMAIN held[c] :
                 Continued(c, info, scriptingT.OnClose, OnCloseDone(held[c][j], info), <<>>)

\* ---------------------------------------------------------------- bench/main.go
\* An environment variable's value: its characters; unset reads as empty.
Digits == <<"0", "1", "2", "3", "4", "5", "6", "7", "8", "9">>

IsDigit(ch) == \E i \in DOMAIN Digits : Digits[i] = ch

DigitOf(ch) == (CHOOSE i \in DOMAIN Digits : Digits[i] = ch) - 1

RECURSIVE DigitsValue(_)
DigitsValue(ds) ==
    IF ds = <<>> THEN 0
    ELSE DigitsValue(SubSeq(ds, 1, Len(ds) - 1)) * 10 + DigitOf(ds[Len(ds)])

\* strconv.Atoi on a text short enough to be in range: an optional sign and
\* one or more decimal digits, else 0 and a syntax error.
Atoi(str) ==
    LET signed == Len(str) > 0 /\ str[1] \in {"+", "-"}
        ds == IF signed THEN Tail(str) ELSE str
        ok == Len(ds) > 0 /\ \A i \in DOMAIN ds : IsDigit(ds[i])
    IN  IF ~ok THEN [n |-> 0, err |-> TRUE]
        ELSE [n |-> IF signed /\ str[1] = "-" THEN 0 - DigitsValue(ds) ELSE DigitsValue(ds),
              err |-> FALSE]

PrepareValues == {<<>>, <<"0">>, <<"1">>, <<"2">>, <<"x">>}
ConcurrencyValues == {<<>>, <<"5">>, <<"0">>, <<"-", "3">>, <<"+", "7">>, <<"1", "2">>, <<"a", "b">>}

DefaultConcurrency == 300
batchSize == 1000
rowsLen == NumBatches * batchSize

Batches == 1..NumBatches

\* main's concurrency: the value of the function literal of lines 102-107.
mainConcurrency(value) ==
    LET a == Atoi(value)
    IN  IF a.err /\ a.n > 0 THEN a.n ELSE DefaultConcurrency

\* The bench not running: the state of its variables beside the bridge.
BenchIdle ==
    /\ env = [CONCURRENCY |-> <<>>, YDB_PREPARE_BENCH_DATA |-> <<>>]
    /\ pc = "idle"
    /\ concurrency = 0
    /\ shift = 0
    /\ sema = 0
    /\ wg = 0
    /\ batch = [b \in Batches |-> "new"]
    /\ workers = [concurrency |-> 0, started |-> 0]

\* main, line 98: upsertData runs if YDB_PREPARE_BENCH_DATA is a positive integer.
MainPrepare ==
    /\ pc = "main"
    /\ LET a == Atoi(env.YDB_PREPARE_BENCH_DATA)
       IN  IF ~a.err /\ a.n > 0
           THEN pc' = "drop" /\ concurrency' = a.n
           ELSE pc' = "concurrency" /\ UNCHANGED concurrency
    /\ UNCHANGED <<env, shift, sema, wg, batch, workers, bridgeVars>>

\* upsertData, lines 129-138: DropTable; its error ends upsertData.
DropTable ==
    /\ pc = "drop"
    /\ \E failed \in BOOLEAN : pc' = IF failed THEN "concurrency" ELSE "create"
    /\ UNCHANGED <<env, concurrency, shift, sema, wg, batch, workers, bridgeVars>>

\* upsertData, lines 139-155: CreateTable; its error ends upsertData.
CreateTable ==
    /\ pc = "create"
    /\ \E failed \in BOOLEAN : pc' = IF failed THEN "concurrency" ELSE "loop"
    /\ UNCHANGED <<env, concurrency, shift, sema, wg, batch, workers, bridgeVars>>

\* The loop's test and wg.Add(1).
LoopAdd ==
    /\ pc = "loop"
    /\ shift < rowsLen
    /\ wg' = wg + 1
    /\ pc' = "send"
    /\ UNCHANGED <<env, concurrency, shift, sema, batch, workers, bridgeVars>>

LoopExit ==
    /\ pc = "loop"
    /\ shift >= rowsLen
    /\ pc' = "wait"
    /\ UNCHANGED <<env, concurrency, shift, sema, wg, batch, workers, bridgeVars>>

\* The send without the channel's capacity.
Send_NoLimit ==
    /\ pc = "send"
    /\ sema' = sema + 1
    /\ pc' = "go"
    /\ UNCHANGED <<env, concurrency, shift, wg, batch, workers, bridgeVars>>

\* sema <- struct{}{}: blocks while the channel holds `concurrency` values.
Send ==
    /\ pc = "send"
    /\ sema < concurrency
    /\ sema' = sema + 1
    /\ pc' = "go"
    /\ UNCHANGED <<env, concurrency, shift, wg, batch, workers, bridgeVars>>

\* go func(prefix, tableName, shift) {...}, and the loop's shift += batchSize.
Go ==
    /\ pc = "go"
    /\ batch' = [batch EXCEPT ![shift \div batchSize + 1] = "running"]
    /\ shift' = shift + batchSize
    /\ pc' = "loop"
    /\ UNCHANGED <<env, concurrency, sema, wg, workers, bridgeVars>>

\* A batch's goroutine: the rows, c.Do(BulkUpsert) whatever its error, then
\* the deferred <-sema.
Release(b) ==
    /\ batch[b] = "running"
    /\ sema > 0
    /\ sema' = sema - 1
    /\ batch' = [batch EXCEPT ![b] = "released"]
    /\ UNCHANGED <<env, pc, concurrency, shift, wg, workers, bridgeVars>>

\* The deferred wg.Done(), after which the goroutine ends.
BatchDone(b) ==
    /\ batch[b] = "released"
    /\ wg' = wg - 1
    /\ batch' = [batch EXCEPT ![b] = "done"]
    /\ UNCHANGED <<env, pc, concurrency, shift, sema, workers, bridgeVars>>

\* wg.Wait() and return nil.
Wait ==
    /\ pc = "wait"
    /\ wg = 0
    /\ pc' = "concurrency"
    /\ UNCHANGED <<env, concurrency, shift, sema, wg, batch, workers, bridgeVars>>

\* main, lines 102-109: concurrency and wg.Add(concurrency).
MainConcurrency ==
    /\ pc = "concurrency"
    /\ workers' = [concurrency |-> mainConcurrency(env.CONCURRENCY), started |-> 0]
    /\ pc' = "launch"
    /\ UNCHANGED <<env, concurrency, shift, sema, wg, batch, bridgeVars>>

\* main, lines 111-124: one turn of the loop starts one load worker.
LaunchWorker ==
    /\ pc = "launch"
    /\ workers.started < workers.concurrency
    /\ workers' = [workers EXCEPT !.started = @ + 1]
    /\ UNCHANGED <<env, pc, concurrency, shift, sema, wg, batch, bridgeVars>>

\* main, line 125: wg.Wait(), which the workers never end.
LaunchExit ==
    /\ pc = "launch"
    /\ workers.started >= workers.concurrency
    /\ pc' = "serving"
    /\ UNCHANGED <<env, concurrency, shift, sema, wg, batch, workers, bridgeVars>>

Init ==
    /\ details \in DetailsValues
    /\ retryT = Retry(details)
    /\ scriptingT = Scripting(details)
    /\ kind = [c \in Chains |-> "none"]
    /\ start = [c \in Chains |-> NoSpan]
    /\ ctx = [c \in Chains |-> NoSpan]
    /\ hist = [c \in Chains |-> <<>>]
    /\ log = <<>>
    /\ held = [c \in Chains |-> <<>>]
    /\ returned = [c \in Chains |-> Outcome(StartInfo(NoSpan, FALSE, "", NoParameters))]
    /\ capacity = NumChains
    /\ BenchIdle

Next ==
    \E c \in Chains :
        \/ RetryStart(c)
        \/ RetryIntermediate(c)
        \/ RetryDone(c)
        \/ ExecuteStart(c)
        \/ ExecuteDone(c)
        \/ StreamExecuteStart(c)
        \/ StreamExecuteIntermediate(c)
        \/ StreamExecuteDone(c)
        \/ ExplainStart(c)
        \/ ExplainDone(c)
        \/ CloseStart(c)
        \/ CloseDone(c)

Spec == Init /\ [][Next]_vars

\* The bridge on a tracer that runs out of spans: every kind enabled, the
\* tracer able to open any number of spans up to one per chain.
InitExhaust ==
    /\ details = RetryEvents \cup ScriptingEvents
    /\ retryT = Retry(details)
    /\ scriptingT = Scripting(details)
    /\ kind = [c \in Chains |-> "none"]
    /\ start = [c \in Chains |-> NoSpan]
    /\ ctx = [c \in Chains |-> NoSpan]
    /\ hist = [c \in Chains |-> <<>>]
    /\ log = <<>>
    /\ held = [c \in Chains |-> <<>>]
    /\ returned = [c \in Chains |-> Outcome(StartInfo(NoSpan, FALSE, "", NoParameters))]
    /\ capacity \in 0..NumChains
    /\ BenchIdle

NextExhaust ==
    \E c \in Chains :
        \/ RetryStart(c)
        \/ RetryIntermediate(c)
        \/ RetryDone(c)
        \/ StreamExecuteStart(c)
        \/ StreamExecuteIntermediate(c)
        \/ StreamExecuteDone(c)
        \/ ExplainStart(c)
        \/ ExplainDone(c)

SpecExhaust == InitExhaust /\ [][NextExhaust]_vars

\* The bench alone: main with any environment, the bridge left as constructed
\* by tracing.WithTraces(trace.DetailsAll).
InitBench ==
    /\ details = RetryEvents \cup ScriptingEvents
    /\ retryT = Retry(details)
    /\ scriptingT = Scripting(details)
    /\ kind = [c \in Chains |-> "none"]
    /\ start = [c \in Chains |-> NoSpan]
    /\ ctx = [c \in Chains |-> NoSpan]
    /\ hist = [c \in Chains |-> <<>>]
    /\ log = <<>>
    /\ held = [c \in Chains |-> <<>>]
    /\ returned = [c \in Chains |-> Outcome(StartInfo(NoSpan, FALSE, "", NoParameters))]
    /\ capacity = NumChains
    /\ env \in [CONCURRENCY : ConcurrencyValues, YDB_PREPARE_BENCH_DATA : PrepareValues]
    /\ pc = "main"
    /\ concurrency = 0
    /\ shift = 0
    /\ sema = 0
    /\ wg = 0
    /\ batch = [b \in Batches |-> "new"]
    /\ workers = [concurrency |-> 0, started |-> 0]

NextBench ==
    \/ MainPrepare
    \/ DropTable
    \/ CreateTable
    \/ LoopAdd
    \/ LoopExit
    \/ Send
    \/ Go
    \/ \E b \in Batches : Release(b)
    \/ \E b \in Batches : BatchDone(b)
    \/ Wait
    \/ MainConcurrency
    \/ LaunchWorker
    \/ LaunchExit

SpecBench == InitBench /\ [][NextBench]_vars

\* ---------------------------------------------------------------- reading the state
Streaming == {"retry", "streamExecute"}

\* Chain c was started and its start handler opened a span.
Traced(c) == kind[c] # "none" /\ start[c] # NoSpan

KindOn(k) ==
    IF k = "retry" THEN (details \cap RetryEvents) # {} ELSE (details \cap ScriptingEvents) # {}

SpanLog(s) == SelectSeq(log, LAMBDA e : e.span = s)

EventsOf(s, op) == SelectSeq(log, LAMBDA e : e.span = s /\ e.op = op)

CallsOf(c, call) == SelectSeq(hist[c], LAMBDA r : r.call = call)

Ops(es) == [i \in DOMAIN es |-> es[i].op]

Annotates(n) == [i \in 1..n |-> "annotate"]

HasAttr(e, key) == \E i \in DOMAIN e.attrs : e.attrs[i].key = key

AttrOf(e, key) == e.attrs[CHOOSE i \in DOMAIN e.attrs : e.attrs[i].key = key]

AttrCount(e, key) == Cardinality({i \in DOMAIN e.attrs : e.attrs[i].key = key})

\* The driver's calls on chain c so far: start, n intermediate calls, one terminal call.
OneTerminalAfter(c, n) ==
    /\ Len(hist[c]) = n + 2
    /\ \A i \in 2..(n + 1) : hist[c][i].call = "intermediate"
    /\ hist[c][n + 2].call = "done"

\* ---------------------------------------------------------------- C1
\* C1: for every enabled chain and every sequence of driver calls, the span the
\* start handler opened has at most one close recorded, exactly one once a
\* terminal continuation was invoked, and none only if none was invoked.
C1_ClosedExactlyOnce ==
    \A c \in Chains :
        Traced(c) =>
            LET closes == Len(EventsOf(start[c], "close"))
                dones == Len(CallsOf(c, "done"))
            IN  /\ closes <= 1
                /\ dones >= 1 => closes = 1
                /\ closes = 0 => dones = 0

C3_NoSecondClose ==
    \A i, j \in DOMAIN log :
        log[i].op = "close" /\ log[j].op = "close" /\ log[i].span = log[j].span => i = j

RECURSIVE CallsOnEnabled(_)
CallsOnEnabled(n) ==
    IF n = 0 THEN 0
    ELSE (IF kind[n] # "none" /\ KindOn(kind[n]) THEN Len(hist[n]) ELSE 0) + CallsOnEnabled(n - 1)

\* C5: with a kind disabled in the details mask, no driver call on a chain of
\* that kind opens, annotates or closes a span: the chain has no span, the
\* context it was started in is left as it was, the log holds no span of that
\* kind, and only the calls on enabled kinds have added to the log.
C5_DisabledKindIsSilent ==
    /\ \A c \in Chains :
         kind[c] # "none" /\ ~KindOn(kind[c]) =>
             start[c] = NoSpan /\ ctx[c] = hist[c][1].Context
    /\ \A i \in DOMAIN log :
         /\ log[i].name = "ydb_retry" => (details \cap RetryEvents) # {}
         /\ log[i].name \in {"ydb_scripting_execute", "ydb_scripting_stream_execute",
                             "ydb_scripting_explain", "ydb_scripting_close"}
              => (details \cap ScriptingEvents) # {}
    /\ Len(log) = CallsOnEnabled(NumChains)

C5_Witness ==
    \E c, d \in Chains :
        /\ kind[c] = "retry" /\ ~KindOn("retry")
        /\ CallCount(c, "intermediate") > 0 /\ CallCount(c, "done") > 0
        /\ kind[d] = "explain" /\ KindOn("explain")

\* ---------------------------------------------------------------- C6
\* C6: on a streaming chain with any number of intermediate calls and no
\* terminal call, the span is still open: its log is the open followed by one
\* annotate per intermediate call, and nothing else.
C6_IntermediateNeverCloses ==
    \A c \in Chains :
        Traced(c) /\ kind[c] \in Streaming /\ CallCount(c, "done") = 0 =>
            Ops(SpanLog(start[c])) = <<"open">> \o Annotates(CallCount(c, "intermediate"))

C6_Witness ==
    \E c, d \in Chains :
        /\ c # d
        /\ Traced(c) /\ kind[c] = "retry"
        /\ CallCount(c, "intermediate") >= 1 /\ CallCount(c, "done") = 0
        /\ Traced(d) /\ kind[d] = "streamExecute"
        /\ CallCount(d, "intermediate") >= 1 /\ CallCount(d, "done") = 0

\* ---------------------------------------------------------------- C7
OpOfCall(call) ==
    CASE call = "start" -> "open"
      [] call = "intermediate" -> "annotate"
      [] call = "done" -> "close"

\* C7: with chains interleaved in any order, each chain has a span of its own,
\* every event of the log is on the span of the chain whose call produced it
\* (the events on a chain's span are that chain's calls, one for one and in
\* order, with that call's error), and no event is on a span of no chain.
C7_EventsLandOnOwnSpan ==
    /\ \A c, d \in Chains : Traced(c) /\ Traced(d) /\ c # d => start[c] # start[d]
    /\ \A i \in DOMAIN log : \E c \in Chains : Traced(c) /\ log[i].span = start[c]
    /\ \A c \in Chains :
         Traced(c) =>
             LET sl == SpanLog(start[c])
             IN  /\ Len(sl) = Len(hist[c])
                 /\ \A i \in DOMAIN hist[c] :
                      /\ sl[i].op = OpOfCall(hist[c][i].call)
                      /\ hist[c][i].call = "intermediate" =>
                           AttrOf(sl[i], "error").b = (hist[c][i].Error # Nil)
                      /\ hist[c][i].call = "done" /\ hist[c][i].Error # Nil =>
                           sl[i].message = hist[c][i].Error[1]

C7_Witness ==
    /\ \E i, j, k \in DOMAIN log :
         /\ i < j /\ j < k
         /\ log[i].span = log[k].span
         /\ log[j].span # log[i].span
         /\ log[j].op = "annotate"
         /\ log[k].op \in {"annotate", "close"}
    /\ \A c \in Chains : Traced(c)

\* ---------------------------------------------------------------- C8
\* C8: on a retry-loop chain the "idempotent" attribute is set once, by the
\* open, to the start record's Idempotent flag; "attempts" is set by the close
\* of a terminal call, once, to that Done record's Attempts; no annotate of an
\* intermediate call carries either attribute.
C8_RetryAttributes ==
    \A c \in Chains :
        Traced(c) /\ kind[c] = "retry" =>
            LET sl == SpanLog(start[c])
                ds == CallsOf(c, "done")
                cs == EventsOf(start[c], "close")
            IN  /\ sl[1].op = "open"
                /\ AttrCount(sl[1], "idempotent") = 1
                /\ AttrOf(sl[1], "idempotent").b = hist[c][1].Idempotent
                /\ ~HasAttr(sl[1], "attempts")
                /\ \A i \in 2..Len(sl) : ~HasAttr(sl[i], "idempotent")
                /\ \A i \in DOMAIN sl : sl[i].op = "annotate" => ~HasAttr(sl[i], "attempts")
                /\ Len(cs) = Len(ds)
                /\ \A k \in DOMAIN ds :
                     /\ AttrCount(cs[k], "attempts") = 1
                     /\ AttrOf(cs[k], "attempts").i = ds[k].Attempts

C8_Witness ==
    \E c \in Chains :
        /\ Traced(c) /\ kind[c] = "retry" /\ OneTerminalAfter(c, 2)
        /\ hist[c][1].Idempotent
        /\ hist[c][4].Attempts = 2

\* ---------------------------------------------------------------- C9
\* Scenario B: start -> intermediate(nil) -> intermediate("x") -> terminal("y").
ScenarioB(c) ==
    /\ kind[c] \in Streaming
    /\ OneTerminalAfter(c, 2)
    /\ hist[c][2].Error = Nil
    /\ hist[c][3].Error = <<"x">>
    /\ hist[c][4].Error = <<"y">>

\* C9: on a streaming chain the k-th intermediate call records one annotate
\* with error=false if its error is nil, and error=true with message = the
\* error's text otherwise; a close takes its status from its own Done record
\* and from no intermediate error; scenario B logs open, annotate(error=false),
\* annotate(error=true, message="x"), close(status=Error, message="y").
C9_AnnotateOwnError ==
    \A c \in Chains :
        Traced(c) /\ kind[c] \in Streaming =>
            LET sl == SpanLog(start[c])
                is == CallsOf(c, "intermediate")
                as == EventsOf(start[c], "annotate")
                ds == CallsOf(c, "done")
                cs == EventsOf(start[c], "close")
            IN  /\ Len(as) = Len(is)
                /\ \A k \in DOMAIN is :
                     /\ as[k].status = ""
                     /\ AttrCount(as[k], "error") = 1
                     /\ IF is[k].Error = Nil
                        THEN AttrOf(as[k], "error").b = FALSE /\ ~HasAttr(as[k], "message")
                        ELSE /\ AttrOf(as[k], "error").b = TRUE
                             /\ AttrCount(as[k], "message") = 1
                             /\ AttrOf(as[k], "message").s = is[k].Error[1]
                /\ Len(cs) = Len(ds)
                /\ \A k \in DOMAIN ds :
                     IF ds[k].Error = Nil
                     THEN cs[k].status = "OK"
                     ELSE cs[k].status = "Error" /\ cs[k].message = ds[k].Error[1]
                /\ ScenarioB(c) =>
                     /\ Ops(sl) = <<"open", "annotate", "annotate", "close">>
                     /\ sl[2].attrs = <<AttrBool("error", FALSE)>>
                     /\ sl[3].attrs = <<AttrBool("error", TRUE), AttrString("message", "x")>>
                     /\ sl[4].status = "Error" /\ sl[4].message = "y"

C9_Witness ==
    \E c \in Chains : Traced(c) /\ kind[c] = "streamExecute" /\ ScenarioB(c)

\* ---------------------------------------------------------------- C10
\* C10: the span a start handler opens has as parent the span active in the
\* context its start record carries, and becomes the active span of the
\* operation's context: an execute started in a retry loop's context has the
\* retry span as parent, and a start in a context with no active span opens a
\* root span.
C10_ChildOfActiveSpan ==
    \A c \in Chains :
        Traced(c) =>
            LET open == SpanLog(start[c])[1]
            IN  /\ open.op = "open"
                /\ open.parent = hist[c][1].Context
                /\ ctx[c] = start[c]
                /\ hist[c][1].Context = NoSpan => open.parent = NoSpan
                /\ \A d \in Chains :
                     /\ Traced(d) /\ kind[d] = "retry" /\ kind[c] = "execute" /\ d # c
                     /\ hist[c][1].Context = ctx[d]
                     => open.parent = start[d]

C10_Witness ==
    \E c, d \in Chains :
        /\ Traced(c) /\ Traced(d)
        /\ kind[d] = "retry" /\ kind[c] = "execute"
        /\ SpanLog(start[d])[1].parent = NoSpan
        /\ SpanLog(start[c])[1].parent = start[d]

RECURSIVE CallsOnTraced(_)
CallsOnTraced(n) ==
    IF n = 0 THEN 0
    ELSE (IF Traced(n) THEN Len(hist[n]) ELSE 0) + CallsOnTraced(n - 1)

\* A chain whose start handler got no span from the tracer.
Degraded(c) == kind[c] # "none" /\ KindOn(kind[c]) /\ start[c] = NoSpan

C13_NoAnnotateAfterClose ==
    \A i, j \in DOMAIN log :
        i < j /\ log[i].span = log[j].span /\ log[i].op = "close" => log[j].op # "annotate"

\* ---------------------------------------------------------------- C14
Closes(c) == Len(EventsOf(start[c], "close"))

\* C14: a span is closed only by a terminal call on its chain: every step that
\* adds a close to a chain's span is a Done call of the driver on that chain,
\* so a chain the driver stops calling keeps its span open in every later state.
C14_ClosedOnlyByTerminalCall ==
    [][\A c \in Chains :
          Traced(c) /\ Closes(c)' > Closes(c) =>
              /\ Len(hist'[c]) = Len(hist[c]) + 1
              /\ hist'[c][Len(hist'[c])].call = "done"]_vars

C14_Witness ==
    \E c, d \in Chains :
        /\ Traced(c) /\ kind[c] = "streamExecute"
        /\ CallCount(c, "intermediate") >= 1 /\ CallCount(c, "done") = 0
        /\ Closes(c) = 0
        /\ Traced(d) /\ Closes(d) = 1
        /\ log[Len(log)].span = start[d]

\* ---------------------------------------------------------------- C15
\* C15: the handlers installed are those the mask given at construction
\* selects and stay so: OnRetry if and only if the mask has a RetryEvents bit;
\* OnExecute, OnStreamExecute, OnExplain and OnClose, all four or none, if and
\* only if it has a ScriptingEvents bit; and a chain started at any time has a
\* span exactly if its kind was installed.
C15_EnabledAtConstruction ==
    /\ retryT.OnRetry <=> (details \cap RetryEvents) # {}
    /\ \A f \in {"OnExecute", "OnStreamExecute", "OnExplain", "OnClose"} :
         scriptingT[f] <=> (details \cap ScriptingEvents) # {}
    /\ \A c \in Chains :
         kind[c] # "none" =>
             (start[c] # NoSpan <=>
                 IF kind[c] = "retry" THEN (details \cap RetryEvents) # {}
                                      ELSE (details \cap ScriptingEvents) # {})

C15_Witness ==
    \E c, d \in Chains :
        /\ details = RetryEvents
        /\ kind[c] = "retry" /\ start[c] # NoSpan
        /\ kind[d] = "close" /\ start[d] = NoSpan /\ CallCount(d, "done") >= 1

\* ---------------------------------------------------------------- C16
\* C16: on a streaming chain every intermediate call returns a Done handler
\* bound to the span of the chain's start call, so whichever of them the
\* driver invokes closes that span; the chain's span is opened once, by its
\* start call, and the closes on it are the chain's terminal calls.
C16_DoneBoundToStartSpan ==
    \A c \in Chains :
        Traced(c) /\ kind[c] \in Streaming =>
            /\ Len(held[c]) = CallCount(c, "intermediate")
            /\ \A j \in DOMAIN held[c] : held[c][j] = start[c]
            /\ Len(EventsOf(start[c], "open")) = 1
            /\ Closes(c) = CallCount(c, "done")
            /\ \A d \in Chains : Traced(d) /\ d # c => start[d] # start[c]

C16_Witness ==
    \E c \in Chains :
        /\ Traced(c) /\ kind[c] = "retry"
        /\ Len(held[c]) = 2
        /\ CallCount(c, "done") = 1
        /\ Closes(c) = 1

\* ---------------------------------------------------------------- C17
Running == {b \in Batches : batch[b] = "running"}

Released == {b \in Batches : batch[b] = "released"}

\* 1 while upsertData holds something for a goroutine it has yet to launch.
Pending(pcs) == IF pc \in pcs THEN 1 ELSE 0

\* C17 as stated: at most `concurrency` launched batches are unfinished, each
\* holding one slot of sema until it finishes, and upsertData returns only
\* after all launched batches have finished.
C17_AtMostConcurrencyUnfinished ==
    /\ Cardinality(Running \cup Released) <= concurrency
    /\ sema = Cardinality(Running \cup Released) + Pending({"go"})
    /\ pc \in {"concurrency", "launch", "serving"} => Running \cup Released = {}

\* C17 amended: at most `concurrency` slots of sema are held, one by each
\* batch from before it is launched until its deferred <-sema, which comes
\* before its wg.Done(); each launched batch releases its slot once; wg counts
\* the batches not yet finished; upsertData returns only after all launched
\* batches have finished.
C17_AtMostConcurrencyHoldSlot ==
    /\ sema <= concurrency
    /\ sema = Cardinality(Running) + Pending({"go"})
    /\ wg = Cardinality(Running \cup Released) + Pending({"send", "go"})
    /\ pc \in {"concurrency", "launch", "serving"} => Running \cup Released = {}
    /\ \A b \in Batches : batch[b] # "new" <=> b <= shift \div batchSize

C17_Witness ==
    /\ concurrency = 2
    /\ Cardinality(Running) = 2
    /\ Cardinality(Released) = 1
    /\ sema = 2

\* ---------------------------------------------------------------- C18
\* C18: the number of load workers main starts is the value of CONCURRENCY
\* when that parses as a positive integer, and 300 otherwise.
C18_WorkersFromEnvironment ==
    pc = "serving" =>
        LET a == Atoi(env.CONCURRENCY)
        IN  workers.started = IF ~a.err /\ a.n > 0 THEN a.n ELSE 300

====
